---- MODULE Spec2Model ----
(***************************************************************************)
(* Model of spotter's AmenitiesDetector (apps/spotter/src/spotter/serve.py *)
(* and python/src/spotter/schemas.py): request validation, the per-image   *)
(* pipeline (_process_single_image: fetch with tenacity retry, decode,     *)
(* detect, annotate) and the batch orchestration of __call__               *)
(* (asyncio.gather followed by the amenity aggregation).                   *)
(*                                                                         *)
(* The asyncio event loop runs one coroutine at a time; a coroutine gives  *)
(* the loop back only at an await.  _process_single_image awaits in the    *)
(* fetch (client.get) and in tenacity's sleep between attempts; from the   *)
(* return of a successful fetch to its return statement it never awaits.   *)
(* The variable running holds the task that occupies the loop in that      *)
(* stretch (0 when the loop is free).                                      *)
(***************************************************************************)
EXTENDS Integers, Sequences, FiniteSets, TLC

VARIABLES body, phase, tasks, running, done_order, response

vars == <<body, phase, tasks, running, done_order, response>>

(***************************************************************************)
(* Bounds of the model.                                                    *)
(***************************************************************************)
MaxUrls == 2
MaxDetections == 2

(***************************************************************************)
(* Program constants.                                                      *)
(***************************************************************************)
StopAttempts == 3
WaitMultiplier == 1
WaitMin == 4
WaitMax == 10
WaitExpBase == 2

Min2(a, b) == IF a <= b THEN a ELSE b
Max2(a, b) == IF a >= b THEN a ELSE b

RECURSIVE Pow(_, _)
Pow(b, e) == IF e = 0 THEN 1 ELSE b * Pow(b, e - 1)

RECURSIVE SeqsUpTo(_, _)
SeqsUpTo(S, n) ==
    IF n = 0 THEN {<<>>}
    ELSE LET shorter == SeqsUpTo(S, n - 1)
         IN  shorter \cup {Append(s, x) : s \in shorter, x \in S}

(***************************************************************************)
(* URLs.  The text of a URL is kept as its three parts                     *)
(* scheme "://" host path.  DetectionRequest.image_urls is list[HttpUrl]:  *)
(* pydantic accepts only the schemes http and https with a host, and the   *)
(* HttpUrl it builds prints (str) with an empty path replaced by "/".      *)
(***************************************************************************)
UrlTexts ==
    { [scheme |-> "http", host |-> "a.com", path |-> ""],
      [scheme |-> "http", host |-> "b.com", path |-> "/x.jpg"],
      [scheme |-> "ftp",  host |-> "a.com", path |-> "/x.jpg"] }

HttpUrlValid(u) == u.scheme \in {"http", "https"} /\ u.host # ""

HttpUrlStr(u) == [u EXCEPT !.path = IF u.path = "" THEN "/" ELSE u.path]

\* Variant: only the shape of the body is validated, image_urls: list[str].
RequestValidShapeOnly(b) == b.shape_ok

\* DetectionRequest.model_validate(await raw_payload.json())
RequestValid(b) ==
    /\ b.shape_ok
    /\ \A k \in 1..Len(b.image_urls) : HttpUrlValid(b.image_urls[k])

Bodies ==
    { [shape_ok |-> TRUE, image_urls |-> s] : s \in SeqsUpTo(UrlTexts, MaxUrls) }
        \cup { [shape_ok |-> FALSE, image_urls |-> <<>>] }

(***************************************************************************)
(* AMENITIES_MAPPING, the COCO label -> amenity table.                     *)
(***************************************************************************)
AMENITIES_MAPPING ==
    [l \in {"refrigerator", "oven", "microwave", "sink", "dining table",
            "toaster", "wine glass", "cup", "fork", "knife", "spoon", "bowl",
            "tv", "couch", "chair", "bed", "toilet", "hair drier", "laptop",
            "mouse", "keyboard", "car"} |->
        CASE l = "dining table" -> "dining area"
          [] l \in {"wine glass", "cup", "fork", "knife", "spoon", "bowl"} -> "kitchen"
          [] l = "tv" -> "TV"
          [] l = "couch" -> "sofa"
          [] l = "toilet" -> "bathroom"
          [] l = "hair drier" -> "hair dryer"
          [] l \in {"laptop", "mouse", "keyboard"} -> "workspace"
          [] l = "car" -> "parking"
          [] OTHER -> l]

Amenities == {AMENITIES_MAPPING[l] : l \in DOMAIN AMENITIES_MAPPING}

(***************************************************************************)
(* Python compares str values by code point, character by character.       *)
(***************************************************************************)
CodePoints(s) ==
    IF s = "refrigerator" THEN <<114, 101, 102, 114, 105, 103, 101, 114, 97, 116, 111, 114>> ELSE
    IF s = "oven" THEN <<111, 118, 101, 110>> ELSE
    IF s = "microwave" THEN <<109, 105, 99, 114, 111, 119, 97, 118, 101>> ELSE
    IF s = "sink" THEN <<115, 105, 110, 107>> ELSE
    IF s = "dining area" THEN <<100, 105, 110, 105, 110, 103, 32, 97, 114, 101, 97>> ELSE
    IF s = "toaster" THEN <<116, 111, 97, 115, 116, 101, 114>> ELSE
    IF s = "kitchen" THEN <<107, 105, 116, 99, 104, 101, 110>> ELSE
    IF s = "TV" THEN <<84, 86>> ELSE
    IF s = "sofa" THEN <<115, 111, 102, 97>> ELSE
    IF s = "chair" THEN <<99, 104, 97, 105, 114>> ELSE
    IF s = "bed" THEN <<98, 101, 100>> ELSE
    IF s = "bathroom" THEN <<98, 97, 116, 104, 114, 111, 111, 109>> ELSE
    IF s = "hair dryer" THEN <<104, 97, 105, 114, 32, 100, 114, 121, 101, 114>> ELSE
    IF s = "workspace" THEN <<119, 111, 114, 107, 115, 112, 97, 99, 101>> ELSE
    IF s = "parking" THEN <<112, 97, 114, 107, 105, 110, 103>> ELSE <<>>

RECURSIVE SeqLess(_, _)
SeqLess(a, b) ==
    IF b = <<>> THEN FALSE
    ELSE IF a = <<>> THEN TRUE
    ELSE IF Head(a) # Head(b) THEN Head(a) < Head(b)
    ELSE SeqLess(Tail(a), Tail(b))

StrLess(s, t) == SeqLess(CodePoints(s), CodePoints(t))

\* Variant: sorted(..., reverse=True).
RECURSIVE SortedReverse(_)
SortedReverse(S) ==
    IF S = {} THEN <<>>
    ELSE LET m == CHOOSE x \in S : \A y \in S \ {x} : StrLess(y, x)
         IN  <<m>> \o SortedReverse(S \ {m})

\* sorted(list(S)) for a set S of str
RECURSIVE Sorted(_)
Sorted(S) ==
    IF S = {} THEN <<>>
    ELSE LET m == CHOOSE x \in S : \A y \in S \ {x} : StrLess(x, y)
         IN  <<m>> \o Sorted(S \ {m})

\* sep.join(xs)
RECURSIVE Join(_, _)
Join(sep, xs) ==
    IF xs = <<>> THEN ""
    ELSE IF Len(xs) = 1 THEN xs[1]
    ELSE xs[1] \o sep \o Join(sep, Tail(xs))

(***************************************************************************)
(* Exceptions.  httpx.HTTPStatusError (raise_for_status) and the transport *)
(* errors (httpx.ConnectError, ...) derive from httpx.HTTPError;           *)
(* httpx.InvalidURL derives from Exception only.                           *)
(***************************************************************************)
NoOutcome == [type |-> "None", msg |-> ""]
Returned == [type |-> "returned", msg |-> ""]

FetchExceptions ==
    { [type |-> "HTTPStatusError", msg |-> "Not Found"],
      [type |-> "ConnectError", msg |-> "All connection attempts failed"],
      [type |-> "InvalidURL", msg |-> "Invalid non-printable ASCII character in URL"] }

DecodeException == [type |-> "UnidentifiedImageError", msg |-> "cannot identify image file"]
DetectException == [type |-> "RuntimeError", msg |-> "model failure"]
AnnotateException == [type |-> "OSError", msg |-> "encoder error"]

ProcessingExceptions == {DecodeException, DetectException, AnnotateException}

Exceptions == FetchExceptions \cup ProcessingExceptions

\* Variant: "except httpx.HTTPStatusError", transport errors fall through.
IsHTTPStatusError(e) == e.type = "HTTPStatusError"

IsHTTPError(e) == e.type \in {"HTTPStatusError", "ConnectError"}

\* traceback.format_exc()
FormatExc(e) ==
    "Traceback (most recent call last):\n" \o e.type \o ": " \o e.msg \o "\n"

(***************************************************************************)
(* ImageResult = DetectionSuccessResult | DetectionErrorResult.  Pending   *)
(* is the value of a task that has not returned; Raised is the state of a  *)
(* task whose coroutine ended with an exception.                           *)
(***************************************************************************)
Pending == [kind |-> "pending"]
Raised(e) == [kind |-> "raised", exc |-> e]
DetectionResult(label, box) == [label |-> label, box |-> box]
DetectionSuccessResult(url, detections, b64) ==
    [kind |-> "success", url |-> url, detections |-> detections,
     labeled_image_base64 |-> b64]
DetectionErrorResult(url, error) == [kind |-> "error", url |-> url, error |-> error]

IsSuccess(r) == r.kind = "success"
IsError(r) == r.kind = "error"

\* Variant: only "except httpx.HTTPError"; any other exception leaves the
\* coroutine.
HandleExceptionHTTPOnly(url, e) ==
    IF IsHTTPError(e)
    THEN DetectionErrorResult(url, "HTTP Error: " \o e.msg)
    ELSE Raised(e)

\* Variant: every exception is reported by the first except clause.
HandleExceptionAllHTTP(url, e) == DetectionErrorResult(url, "HTTP Error: " \o e.msg)

\* The except clauses of _process_single_image.
HandleException(url, e) ==
    IF IsHTTPError(e)
    THEN DetectionErrorResult(url, "HTTP Error: " \o e.msg)
    ELSE DetectionErrorResult(url, "Processing Error: " \o e.msg \o "\n" \o FormatExc(e))

(***************************************************************************)
(* tenacity: AsyncRetrying(stop=stop_after_attempt(3),                     *)
(* wait=wait_exponential(multiplier=1, min=4, max=10), reraise=True).      *)
(* wait_exponential computes multiplier * exp_base^(attempt_number - 1)    *)
(* and clamps the value into [min, max]; attempt_number is the number of   *)
(* the attempt that just failed.                                           *)
(***************************************************************************)
\* Variant: stop_after_attempt(2).
StopAfterAttemptEarly(attempt_number) == attempt_number >= StopAttempts - 1

StopAfterAttempt(attempt_number) == attempt_number >= StopAttempts

\* Variant: reraise=False, tenacity raises its RetryError wrapper.
RaiseRetryError(outcome) ==
    [type |-> "RetryError", msg |-> "RetryError[<Future raised " \o outcome.type \o ">]"]

\* reraise=True: when the stop condition holds, the exception of the last
\* attempt is raised again, the same object.
Reraise(outcome) == outcome

\* Variant: retry_never, the loop ends after the first attempt whatever its
\* outcome and the pipeline goes on.
RetryNever(outcome) == FALSE

\* Variant: retry whatever the outcome of the attempt.
RetryAlways(outcome) == TRUE

\* The default retry condition: retry when the attempt raised.
RetryIfException(outcome) == outcome.type # "returned"

\* Variant: the exponential starts at min and doubles from there.
WaitExponentialFromMin(attempt_number) ==
    Min2(WaitMax, WaitMin * Pow(WaitExpBase, attempt_number - 1))

WaitExponential(attempt_number) ==
    LET exp == Pow(WaitExpBase, attempt_number - 1)
        result == WaitMultiplier * exp
    IN  Max2(Max2(0, WaitMin), Min2(result, WaitMax))

(***************************************************************************)
(* The Detector (processor + model + post_process_object_detection): its   *)
(* output is a list of labels and a list of boxes of the same length.      *)
(***************************************************************************)
RawDetections ==
    { [label |-> "tv",     box |-> <<10, 10, 50, 50>>],
      [label |-> "couch",  box |-> <<-5, 20, 90, 70>>],
      [label |-> "remote", box |-> <<10, 10, 50, 50>>] }

DetectorOutputs ==
    { [labels |-> [k \in 1..Len(s) |-> s[k].label],
       boxes  |-> [k \in 1..Len(s) |-> s[k].box]] :
        s \in SeqsUpTo(RawDetections, MaxDetections) }

NoDetections == [labels |-> <<>>, boxes |-> <<>>]

\* Variant: the loop without "if label not in AMENITIES_MAPPING: continue",
\* an unmapped label kept under its own name.
RECURSIVE ImageDetectionsNoFilter(_, _)
ImageDetectionsNoFilter(raw, k) ==
    IF k = 0 THEN <<>>
    ELSE LET label == raw.labels[k]
             amenity == IF label \in DOMAIN AMENITIES_MAPPING
                        THEN AMENITIES_MAPPING[label] ELSE label
         IN  Append(ImageDetectionsNoFilter(raw, k - 1),
                    DetectionResult(amenity, raw.boxes[k]))

\* The loop "for label, box in zip(labels, boxes)": the detections kept so
\* far after the first k pairs.
RECURSIVE ImageDetections(_, _)
ImageDetections(raw, k) ==
    IF k = 0 THEN <<>>
    ELSE LET before == ImageDetections(raw, k - 1)
             label == raw.labels[k]
         IN  IF label \notin DOMAIN AMENITIES_MAPPING
             THEN before
             ELSE Append(before, DetectionResult(AMENITIES_MAPPING[label], raw.boxes[k]))

MapDetections(raw) == ImageDetections(raw, Min2(Len(raw.labels), Len(raw.boxes)))

\* The annotated image, saved as JPEG and base64-encoded: a text that names
\* what was drawn on the image of url.
Base64Jpeg(url, detections) ==
    "b64:jpeg:" \o url.host \o url.path \o "#"
        \o Join(";", [k \in 1..Len(detections) |-> detections[k].label])

(***************************************************************************)
(* __call__: the aggregation that follows asyncio.gather.                  *)
(***************************************************************************)
\* Variant: the results collected in completion order (as_completed).
GatheredResultsByCompletion(ts, order) ==
    [k \in 1..Len(order) |-> ts[order[k]].result]

\* asyncio.gather returns the results in the order of its arguments.
GatheredResults(ts, order) == [i \in 1..Len(ts) |-> ts[i].result]

\* all_amenities_detected after the first k results.
RECURSIVE AllAmenitiesDetected(_, _)
AllAmenitiesDetected(results, k) ==
    IF k = 0 THEN {}
    ELSE LET before == AllAmenitiesDetected(results, k - 1)
             result == results[k]
         IN  IF IsSuccess(result)
             THEN before \cup {result.detections[d].label : d \in 1..Len(result.detections)}
             ELSE before

AmenitiesDescription(all_amenities_detected) ==
    IF all_amenities_detected # {}
    THEN "The property contains: " \o Join(", ", Sorted(all_amenities_detected)) \o "."
    ELSE "No relevant amenities detected."

DetectionResponse(results) ==
    [amenities_description |->
        AmenitiesDescription(AllAmenitiesDetected(results, Len(results))),
     images |-> results]

NoResponse == [amenities_description |-> "", images |-> <<>>]

\* Variant: the aggregation waits until every child returned a Success.
GatherDoneAllSucceeded(ts) == \A i \in 1..Len(ts) : ts[i].result.kind = "success"

\* The outer future of asyncio.gather is done when every child is done, or
\* as soon as one child has raised.
AllDone(ts) == \A i \in 1..Len(ts) : ts[i].pc = "done"
SomeRaised(ts) == \E i \in 1..Len(ts) : ts[i].result.kind = "raised"
\* Variant: asyncio.wait(..., return_when=FIRST_COMPLETED).
GatherDoneFirstCompleted(ts) == \E i \in 1..Len(ts) : ts[i].pc = "done"

GatherDone(ts) == AllDone(ts) \/ SomeRaised(ts)

(***************************************************************************)
(* State.                                                                  *)
(*   body        the JSON body of the request                              *)
(*   phase       where __call__ is: "received", "gathering" (awaiting      *)
(*               asyncio.gather), "responded", "rejected" (validation      *)
(*               raised) or "failed" (gather raised)                       *)
(*   tasks       one record per _process_single_image coroutine: its url   *)
(*               argument, its position pc, the number of calls of         *)
(*               _fetch_image_bytes, the outcome of the last attempt, the  *)
(*               sleeps tenacity made, the stages run, the Detector's      *)
(*               output, the exception raised inside the try block and the *)
(*               value returned                                            *)
(*   running     the task that occupies the event loop between the return  *)
(*               of its fetch and its return statement (0: none)           *)
(*   done_order  the tasks in the order in which they finished             *)
(*   response    the DetectionResponse returned                            *)
(***************************************************************************)
NewTask(url) ==
    [url |-> url, pc |-> "created", fetch_calls |-> 0, outcome |-> NoOutcome,
     sleeps |-> <<>>, stages |-> <<>>, detections_raw |-> NoDetections,
     raised |-> NoOutcome, result |-> Pending]

TaskIds == 1..Len(tasks)

Init ==
    /\ body \in Bodies
    /\ phase = "received"
    /\ tasks = <<>>
    /\ running = 0
    /\ done_order = <<>>
    /\ response = NoResponse

\* Lines 179-180: validation, then one coroutine per URL, in input order.
Validate ==
    /\ phase = "received"
    /\ IF RequestValid(body)
       THEN /\ tasks' = [i \in 1..Len(body.image_urls) |->
                            NewTask(HttpUrlStr(body.image_urls[i]))]
            /\ phase' = "gathering"
       ELSE /\ tasks' = tasks
            /\ phase' = "rejected"
    /\ UNCHANGED <<body, running, done_order, response>>

\* A task returns (or raises): its result is set and it is done.
Finish(i, t, result) ==
    /\ tasks' = [tasks EXCEPT ![i] = [t EXCEPT !.pc = "done", !.result = result]]
    /\ done_order' = Append(done_order, i)

\* The try block raises e: the except clauses make the result.
Raise(i, t, e) == Finish(i, [t EXCEPT !.raised = e], HandleException(t.url, e))

\* The task starts: first attempt, no wait; it suspends in client.get.
StartTask(i) ==
    /\ phase \in {"gathering", "failed"}
    /\ running = 0
    /\ tasks[i].pc = "created"
    /\ tasks' = [tasks EXCEPT ![i].pc = "fetching", ![i].fetch_calls = 1]
    /\ UNCHANGED <<body, phase, running, done_order, response>>

\* One iteration of "async for attempt in retries" ends with outcome o:
\* without a retry condition the loop ends and the task goes on, without
\* awaiting, to Image.open; after the last attempt tenacity re-raises the
\* exception of that attempt; otherwise it sleeps for wait_exponential.
AttemptDone(i, o) ==
    LET t == [tasks[i] EXCEPT !.outcome = o]
    IN  IF ~RetryIfException(o)
        THEN /\ tasks' = [tasks EXCEPT ![i] = [t EXCEPT !.pc = "decode"]]
             /\ running' = i
             /\ UNCHANGED done_order
        ELSE IF StopAfterAttempt(t.fetch_calls)
        THEN /\ Raise(i, t, Reraise(o))
             /\ UNCHANGED running
        ELSE /\ tasks' = [tasks EXCEPT ![i] =
                     [t EXCEPT !.pc = "sleeping",
                               !.sleeps = Append(@, WaitExponential(t.fetch_calls))]]
             /\ UNCHANGED <<running, done_order>>

\* The awaited _fetch_image_bytes returns the bytes.
FetchReturns(i) ==
    /\ phase \in {"gathering", "failed"}
    /\ running = 0
    /\ tasks[i].pc = "fetching"
    /\ AttemptDone(i, Returned)
    /\ UNCHANGED <<body, phase, response>>

\* The awaited _fetch_image_bytes raises e (client.get or raise_for_status).
FetchRaises(i, e) ==
    /\ phase \in {"gathering", "failed"}
    /\ running = 0
    /\ tasks[i].pc = "fetching"
    /\ AttemptDone(i, e)
    /\ UNCHANGED <<body, phase, response>>

\* The sleep ends: next attempt.
Retry(i) ==
    /\ phase \in {"gathering", "failed"}
    /\ running = 0
    /\ tasks[i].pc = "sleeping"
    /\ tasks' = [tasks EXCEPT ![i].pc = "fetching",
                              ![i].fetch_calls = @ + 1,
                              ![i].outcome = NoOutcome]
    /\ UNCHANGED <<body, phase, running, done_order, response>>

\* Lines 96-97: Image.open and convert("RGB").
Decode(i, ok) ==
    /\ running = i
    /\ tasks[i].pc = "decode"
    /\ LET t == [tasks[i] EXCEPT !.stages = Append(@, "decode")]
       IN  IF ok
           THEN /\ tasks' = [tasks EXCEPT ![i] = [t EXCEPT !.pc = "detect"]]
                /\ UNCHANGED <<running, done_order>>
           ELSE /\ Raise(i, t, DecodeException)
                /\ running' = 0
    /\ UNCHANGED <<body, phase, response>>

\* Lines 98-117: processor, model, post_process_object_detection, id2label.
DetectReturns(i, out) ==
    /\ running = i
    /\ tasks[i].pc = "detect"
    /\ tasks' = [tasks EXCEPT ![i].pc = "annotate",
                              ![i].stages = Append(@, "detect"),
                              ![i].detections_raw = out]
    /\ UNCHANGED <<body, phase, running, done_order, response>>

DetectRaises(i) ==
    /\ running = i
    /\ tasks[i].pc = "detect"
    /\ LET t == [tasks[i] EXCEPT !.stages = Append(@, "detect")]
       IN  Raise(i, t, DetectException)
    /\ running' = 0
    /\ UNCHANGED <<body, phase, response>>

\* Lines 119-148: the drawing loop, the JPEG and base64 encoding, return.
Annotate(i, ok) ==
    /\ running = i
    /\ tasks[i].pc = "annotate"
    /\ LET t == [tasks[i] EXCEPT !.stages = Append(@, "annotate")]
           image_detections == MapDetections(t.detections_raw)
       IN  IF ok
           THEN Finish(i, t, DetectionSuccessResult(t.url, image_detections,
                                        Base64Jpeg(t.url, image_detections)))
           ELSE Raise(i, t, AnnotateException)
    /\ running' = 0
    /\ UNCHANGED <<body, phase, response>>

\* Lines 181-196: gather is done; on an exception of a child __call__
\* raises, otherwise it aggregates and returns the response.
Gather ==
    /\ phase = "gathering"
    /\ running = 0
    /\ GatherDone(tasks)
    /\ IF SomeRaised(tasks)
       THEN /\ phase' = "failed"
            /\ UNCHANGED response
       ELSE /\ phase' = "responded"
            /\ response' = DetectionResponse(GatheredResults(tasks, done_order))
    /\ UNCHANGED <<body, tasks, running, done_order>>

Next ==
    \/ Validate
    \/ \E i \in TaskIds : StartTask(i)
    \/ \E i \in TaskIds : FetchReturns(i)
    \/ \E i \in TaskIds : \E e \in FetchExceptions : FetchRaises(i, e)
    \/ \E i \in TaskIds : Retry(i)
    \/ \E i \in TaskIds : \E ok \in BOOLEAN : Decode(i, ok)
    \/ \E i \in TaskIds : \E out \in DetectorOutputs : DetectReturns(i, out)
    \/ \E i \in TaskIds : DetectRaises(i)
    \/ \E i \in TaskIds : \E ok \in BOOLEAN : Annotate(i, ok)
    \/ Gather

Spec == Init /\ [][Next]_vars

\* The event loop runs a ready callback whenever there is one, and every
\* awaited fetch, sleep and gather completes: a step that can be taken is
\* eventually taken.
FairSpec == Init /\ [][Next]_vars /\ WF_vars(Next)

(***************************************************************************)
(* Properties.                                                             *)
(***************************************************************************)
\* The texts that can follow the tag of an error string.
ErrorTails ==
    {""} \cup {e.msg : e \in Exceptions}
         \cup {"\n" \o FormatExc(e) : e \in Exceptions}
         \cup {e.msg \o "\n" \o FormatExc(e) : e \in Exceptions}

StartsWith(s, prefix) == \E tail \in ErrorTails : s = prefix \o tail

Responded == phase = "responded"

\* C1 (as amended): in every response, images has the length of the input
\* URL list and images[i].url is the text pydantic's HttpUrl prints for
\* image_urls[i] (an empty path printed as "/"), whatever the completion
\* order and whichever pipelines failed.
C1_OrderAndCompleteness ==
    Responded =>
        /\ Len(response.images) = Len(body.image_urls)
        /\ \A i \in 1..Len(body.image_urls) :
              /\ response.images[i].kind \in {"success", "error"}
              /\ response.images[i].url.scheme = body.image_urls[i].scheme
              /\ response.images[i].url.host = body.image_urls[i].host
              /\ response.images[i].url.path =
                    (IF body.image_urls[i].path = "" THEN "/" ELSE body.image_urls[i].path)

\* C1 as stated: images[i].url == image_urls[i], text for text.
C1_Original ==
    Responded =>
        /\ Len(response.images) = Len(body.image_urls)
        /\ \A i \in 1..Len(body.image_urls) : response.images[i].url = body.image_urls[i]

\* Two different URLs, the second finished first, one of them failed.
C1_Witness ==
    /\ Responded
    /\ Len(body.image_urls) = 2
    /\ body.image_urls[1] # body.image_urls[2]
    /\ done_order = <<2, 1>>
    /\ IsError(response.images[1])
    /\ IsSuccess(response.images[2])

\* The number of fetch attempts of task t that failed.
FailedAttempts(t) ==
    Len(t.sleeps) + (IF t.pc = "done" /\ t.outcome \in FetchExceptions THEN 1 ELSE 0)

\* C2: the outcome and the fetch count of a task are decided by its own
\* fetch and processing results: a finished task is a Success exactly when
\* nothing raised in its own pipeline and a Failure exactly when something
\* did; its fetch calls are its own failed attempts plus the attempt in
\* flight or the successful one; no exception leaves a pipeline and the
\* batch never fails; a step of one task changes no other task, and a
\* finished task never changes again.
C2_Isolation ==
    /\ [](/\ phase # "failed"
          /\ \A i \in TaskIds :
                LET t == tasks[i]
                IN  /\ t.result.kind # "raised"
                    /\ t.pc = "done" =>
                          /\ IsSuccess(t.result) <=> t.raised = NoOutcome
                          /\ IsError(t.result) <=> t.raised # NoOutcome
                    /\ t.fetch_calls =
                          FailedAttempts(t)
                            + (IF t.pc = "fetching" \/ t.outcome = Returned THEN 1 ELSE 0))
    /\ [][\A i \in TaskIds :
            /\ (tasks[i].pc = "done" => tasks'[i] = tasks[i])
            /\ (tasks'[i] # tasks[i] =>
                    \A j \in TaskIds \ {i} : tasks'[j] = tasks[j])]_vars

\* One URL exhausted its fetches, its sibling succeeded at the first attempt.
C2_Witness ==
    /\ Responded
    /\ Len(tasks) = 2
    /\ IsError(tasks[1].result) /\ tasks[1].fetch_calls = 3
    /\ tasks[1].raised \in FetchExceptions
    /\ IsSuccess(tasks[2].result) /\ tasks[2].fetch_calls = 1

\* C3 (as amended): a URL whose fetch fails on every attempt gets exactly 3
\* fetch calls (no task ever makes a fourth, none gives up before the third)
\* and a Failure; its error begins with "HTTP Error: " when the exception of
\* the last attempt is an httpx.HTTPError (status or transport error) and
\* with "Processing Error: " when it is any other exception.
C3_RetryExhaustion ==
    \A i \in TaskIds :
        LET t == tasks[i]
        IN  /\ t.fetch_calls <= 3
            /\ t.pc = "sleeping" => t.fetch_calls < 3
            /\ (t.pc = "done" /\ t.outcome \in FetchExceptions) =>
                  /\ t.fetch_calls = 3
                  /\ IsError(t.result)
                  /\ IF t.outcome.type \in {"HTTPStatusError", "ConnectError"}
                     THEN StartsWith(t.result.error, "HTTP Error: ")
                     ELSE StartsWith(t.result.error, "Processing Error: ")

\* C3 as stated: the Failure always begins with "HTTP Error: ".
C3_Original ==
    \A i \in TaskIds :
        LET t == tasks[i]
        IN  (t.pc = "done" /\ t.outcome \in FetchExceptions) =>
                /\ t.fetch_calls = 3
                /\ IsError(t.result)
                /\ StartsWith(t.result.error, "HTTP Error: ")

C3_Witness ==
    \E i \in TaskIds :
        /\ tasks[i].pc = "done"
        /\ tasks[i].outcome.type = "HTTPStatusError"
        /\ tasks[i].fetch_calls = 3
        /\ tasks[i].result = DetectionErrorResult(tasks[i].url, "HTTP Error: Not Found")

\* C4: once the fetch of a task has returned at attempt k (1..3), after
\* exactly k - 1 failed attempts, the task makes no further fetch call (it
\* is never again fetching or sleeping and its call count stays k), and if
\* no later stage raises its result is a Success.
C4_StopAtFirstSuccess ==
    /\ [](\A i \in TaskIds :
            LET t == tasks[i]
            IN  t.outcome = Returned =>
                  /\ t.fetch_calls \in 1..3
                  /\ Len(t.sleeps) = t.fetch_calls - 1
                  /\ t.pc \in {"decode", "detect", "annotate", "done"}
                  /\ (t.pc = "done" /\ t.raised = NoOutcome) => IsSuccess(t.result))
    /\ [][\A i \in TaskIds :
            tasks[i].outcome = Returned =>
                /\ tasks'[i].outcome = Returned
                /\ tasks'[i].fetch_calls = tasks[i].fetch_calls]_vars

\* Success at the second attempt: two fetch calls and a Success.
C4_Witness ==
    \E i \in TaskIds :
        /\ tasks[i].pc = "done"
        /\ tasks[i].fetch_calls = 2
        /\ IsSuccess(tasks[i].result)

\* The amenity labels of all detections of all Success results.
SuccessAmenities(images) ==
    UNION { {images[i].detections[d].label : d \in 1..Len(images[i].detections)} :
                i \in {k \in 1..Len(images) : IsSuccess(images[k])} }

\* The sequences that list every element of S once.
ListingsOf(S) ==
    {s \in [1..Cardinality(S) -> S] : \A x \in S : \E k \in 1..Cardinality(S) : s[k] = x}

\* C5: with U the set of amenity labels of the detections of the Success
\* results, amenities_description is "No relevant amenities detected." when
\* U is empty, and otherwise "The property contains: ", the elements of U
\* once each in ascending code-point order joined by ", ", and ".".
C5_AmenitiesDescription ==
    Responded =>
        LET U == SuccessAmenities(response.images)
        IN  IF U = {}
            THEN response.amenities_description = "No relevant amenities detected."
            ELSE \E s \in ListingsOf(U) :
                    /\ \A k \in 1..(Len(s) - 1) : StrLess(s[k], s[k + 1])
                    /\ response.amenities_description =
                          "The property contains: " \o Join(", ", s) \o "."

\* A failed image and an image where the couch was found twice and the TV
\* once: the upper-case "TV" comes first, "sofa" appears once.
C5_Witness ==
    /\ Responded
    /\ \E i \in TaskIds : IsError(response.images[i])
    /\ \E i \in TaskIds :
          /\ IsSuccess(response.images[i])
          /\ \E d \in 1..Len(response.images[i].detections) :
                response.images[i].detections[d].label = "sofa"
    /\ response.amenities_description = "The property contains: TV, sofa."

\* The positions of the Detector's output whose label is in the vocabulary.
MappedPositions(raw) ==
    SelectSeq([k \in 1..Len(raw.labels) |-> k],
              LAMBDA k : raw.labels[k] \in DOMAIN AMENITIES_MAPPING)

\* C6: a task whose fetch returned and in which nothing raised is a Success
\* with an encoded image; its detections are the Detector's detections with
\* a label of the vocabulary, in the Detector's order, duplicates kept, each
\* with its amenity name and its box; an unmapped label appears in no
\* detection, and the description lists amenity names only.
C6_LabelFiltering ==
    /\ \A i \in TaskIds :
          LET t == tasks[i]
              kept == MappedPositions(t.detections_raw)
          IN  (t.pc = "done" /\ t.outcome = Returned /\ t.raised = NoOutcome) =>
                /\ IsSuccess(t.result)
                /\ t.result.labeled_image_base64 # ""
                /\ Len(t.result.detections) = Len(kept)
                /\ \A j \in 1..Len(kept) :
                      /\ t.result.detections[j].label =
                            AMENITIES_MAPPING[t.detections_raw.labels[kept[j]]]
                      /\ t.result.detections[j].box = t.detections_raw.boxes[kept[j]]
    /\ Responded => SuccessAmenities(response.images) \subseteq Amenities

\* "remote" dropped, the couch behind it kept under its amenity name.
C6_Witness ==
    \E i \in TaskIds :
        /\ IsSuccess(tasks[i].result)
        /\ tasks[i].detections_raw.labels = <<"remote", "couch">>
        /\ Len(tasks[i].result.detections) = 1
        /\ tasks[i].result.detections[1].label = "sofa"

\* Only unmapped detections: still a Success, with no detections.
C6_WitnessEmpty ==
    \E i \in TaskIds :
        /\ IsSuccess(tasks[i].result)
        /\ tasks[i].detections_raw.labels = <<"remote">>
        /\ tasks[i].result.detections = <<>>

StagePcs == {"decode", "detect", "annotate"}

\* C7: a task in which a stage after the fetch raised is a Failure whose
\* error begins with "Processing Error: " and the message of the exception;
\* every stage ran at most once and the fetch was not called again; the step
\* in which the stage raises is the step in which the task finishes.
C7_ProcessingErrorNotRetried ==
    /\ [](\A i \in TaskIds :
            LET t == tasks[i]
            IN  /\ \A a, b \in 1..Len(t.stages) : t.stages[a] = t.stages[b] => a = b
                /\ (t.pc = "done" /\ t.raised \in ProcessingExceptions) =>
                      /\ IsError(t.result)
                      /\ StartsWith(t.result.error, "Processing Error: " \o t.raised.msg)
                      /\ t.outcome = Returned
                      /\ t.fetch_calls = Len(t.sleeps) + 1)
    /\ [][\A i \in TaskIds :
            tasks[i].pc \in StagePcs =>
                /\ tasks'[i].fetch_calls = tasks[i].fetch_calls
                /\ tasks'[i].pc \in StagePcs \cup {"done"}
                /\ tasks'[i].raised # NoOutcome => tasks'[i].pc = "done"]_vars

C7_Witness ==
    \E i \in TaskIds :
        /\ tasks[i].pc = "done"
        /\ tasks[i].raised = DetectException
        /\ tasks[i].stages = <<"decode", "detect">>
        /\ tasks[i].fetch_calls = 1

\* The body is malformed or one of its URLs is not an http(s) URL with a host.
BodyInvalid ==
    \/ ~body.shape_ok
    \/ \E k \in 1..Len(body.image_urls) :
          \/ body.image_urls[k].scheme \notin {"http", "https"}
          \/ body.image_urls[k].host = ""

\* C8: for an invalid body no pipeline is ever created (so no fetch and no
\* Detector call happens, for the valid URLs of the body neither), nothing
\* finishes, no response exists, and the request ends rejected.
C8_ValidationFailFast ==
    BodyInvalid =>
        /\ tasks = <<>>
        /\ done_order = <<>>
        /\ running = 0
        /\ response = NoResponse
        /\ phase \in {"received", "rejected"}

\* Rejected although the first URL of the body is valid.
C8_Witness ==
    /\ phase = "rejected"
    /\ Len(body.image_urls) = 2
    /\ body.image_urls[1].scheme = "http"
    /\ body.image_urls[2].scheme = "ftp"

\* C9: when the response exists every pipeline has returned its Success or
\* Failure (none is created, fetching, sleeping or in a stage), and the
\* response holds those final results.
C9_ResponseAfterAll ==
    (Responded \/ response # NoResponse) =>
        /\ running = 0
        /\ Len(response.images) = Len(tasks)
        /\ \A i \in TaskIds :
              /\ tasks[i].pc = "done"
              /\ tasks[i].result.kind \in {"success", "error"}
              /\ response.images[i] = tasks[i].result

\* The first URL failed at once in decoding, its sibling needed all three
\* fetch attempts and finished afterwards.
C9_Witness ==
    /\ Responded
    /\ Len(tasks) = 2
    /\ done_order = <<1, 2>>
    /\ tasks[1].raised = DecodeException /\ tasks[1].fetch_calls = 1
    /\ tasks[2].fetch_calls = 3

\* C10 (as amended): no sleep precedes the first attempt; the sleep before
\* retry k (k = 1, 2) is 2^(k-1) clamped into [4, 10], that is 4 time units
\* for both retries; every sleep lies in [4, 10].
C10_BackoffSchedule ==
    \A i \in TaskIds :
        LET t == tasks[i]
        IN  /\ Len(t.sleeps) <= 2
            /\ Len(t.sleeps) =
                  (IF t.pc \in {"created", "sleeping"}
                   THEN t.fetch_calls ELSE t.fetch_calls - 1)
            /\ \A k \in 1..Len(t.sleeps) :
                  /\ t.sleeps[k] =
                        (LET e == Pow(2, k - 1)
                         IN  IF e < 4 THEN 4 ELSE IF e > 10 THEN 10 ELSE e)
                  /\ t.sleeps[k] = 4
                  /\ t.sleeps[k] >= 4 /\ t.sleeps[k] <= 10

\* C10 as stated: the sleep before retry k is min(10, 4 * 2^(k-1)).
C10_Original ==
    \A i \in TaskIds :
        \A k \in 1..Len(tasks[i].sleeps) :
            tasks[i].sleeps[k] = (IF 4 * Pow(2, k - 1) < 10 THEN 4 * Pow(2, k - 1) ELSE 10)

\* A task that slept before both retries.
C10_Witness ==
    \E i \in TaskIds : tasks[i].fetch_calls = 3 /\ Len(tasks[i].sleeps) = 2

\* C11: every box of every detection of every Success result has exactly 4
\* coordinates [xmin, ymin, xmax, ymax] with xmin >= 0, ymin >= 0,
\* xmax > xmin and ymax > ymin.
C11_BoxInvariant ==
    \A i \in TaskIds :
        IsSuccess(tasks[i].result) =>
            \A d \in 1..Len(tasks[i].result.detections) :
                LET box == tasks[i].result.detections[d].box
                IN  /\ Len(box) = 4
                    /\ box[1] >= 0 /\ box[2] >= 0
                    /\ box[3] > box[1] /\ box[4] > box[2]

\* C12 (as amended): a finished task whose last fetch attempt raised an
\* httpx.HTTPError (HTTP status or transport failure) has a Failure that
\* begins with "HTTP Error: "; a Failure that begins with "HTTP Error: "
\* comes from such a fetch failure only; a Failure that begins with
\* "Processing Error: " belongs to a task whose fetch returned or whose last
\* fetch attempt raised an exception that is not an httpx.HTTPError.
C12_FailureClassification ==
    \A i \in TaskIds :
        LET t == tasks[i]
            fetch_http == /\ t.outcome \in FetchExceptions
                          /\ t.outcome.type \in {"HTTPStatusError", "ConnectError"}
        IN  (t.pc = "done" /\ IsError(t.result)) =>
                /\ StartsWith(t.result.error, "HTTP Error: ") <=> fetch_http
                /\ StartsWith(t.result.error, "Processing Error: ") <=>
                      \/ t.outcome = Returned
                      \/ t.outcome \in FetchExceptions /\ ~fetch_http
                /\ fetch_http => t.stages = <<>>

\* C12 as stated: every exhausted fetch gives "HTTP Error: ", and
\* "Processing Error: " is produced only after a successful fetch.
C12_Original ==
    \A i \in TaskIds :
        LET t == tasks[i]
        IN  (t.pc = "done" /\ IsError(t.result)) =>
                /\ t.outcome \in FetchExceptions =>
                      StartsWith(t.result.error, "HTTP Error: ")
                /\ StartsWith(t.result.error, "Processing Error: ") =>
                      t.outcome = Returned

\* A batch with both kinds: the first URL's fetch ended in a transport
\* error, the second URL's fetch returned and its decode raised.
C12_Witness ==
    /\ Len(tasks) = 2
    /\ tasks[1].pc = "done" /\ tasks[2].pc = "done"
    /\ tasks[1].outcome.type = "ConnectError"
    /\ tasks[1].result = DetectionErrorResult(tasks[1].url,
                              "HTTP Error: All connection attempts failed")
    /\ tasks[2].outcome = Returned
    /\ IsError(tasks[2].result)
    /\ StartsWith(tasks[2].result.error, "Processing Error: ")

\* C13: the Detector invocation does not serialize the batch: while the
\* pipeline of one URL is inside its decode/detect/annotate stages, the
\* pipeline of every other URL that has a step to take (its task has not
\* started, its fetch is in flight, or its retry wait is over) can take it.
C13_StagesDoNotSerialize ==
    \A i \in TaskIds : \A j \in TaskIds \ {i} :
        tasks[i].pc \in StagePcs =>
            /\ tasks[j].pc = "created" => ENABLED StartTask(j)
            /\ tasks[j].pc = "fetching" => ENABLED FetchReturns(j)
            /\ tasks[j].pc = "sleeping" => ENABLED Retry(j)

\* C14: when the fetch of a URL fails on all 3 attempts, the exception the
\* pipeline handles is the one the third attempt raised, unchanged (no
\* RetryError wrapper), and the Failure carries the tag and the message of
\* that exception; the step that ends the third attempt is the only one
\* that finishes a task from its fetch, and it reports the exception it
\* recorded in that very step.
C14_LastAttemptError ==
    /\ [](\A i \in TaskIds :
            LET t == tasks[i]
            IN  (t.pc = "done" /\ t.outcome \in FetchExceptions) =>
                    /\ t.fetch_calls = StopAttempts
                    /\ t.raised = t.outcome
                    /\ t.result.kind = "error"
                    /\ t.result.url = t.url
                    /\ t.result.error =
                          IF t.outcome.type \in {"HTTPStatusError", "ConnectError"}
                          THEN "HTTP Error: " \o t.outcome.msg
                          ELSE "Processing Error: " \o t.outcome.msg \o "\n"
                                   \o "Traceback (most recent call last):\n"
                                   \o t.outcome.type \o ": " \o t.outcome.msg \o "\n")
    /\ [][\A i \in TaskIds :
            (i <= Len(tasks) /\ tasks[i].pc = "fetching" /\ tasks'[i].pc = "done") =>
                /\ tasks[i].fetch_calls = StopAttempts
                /\ tasks[i].outcome = NoOutcome
                /\ tasks'[i].outcome \in FetchExceptions
                /\ tasks'[i].raised = tasks'[i].outcome]_vars

\* A single URL whose third attempt raised the HTTP status error, answered.
C14_Witness ==
    /\ Responded
    /\ Len(tasks) = 1
    /\ tasks[1].fetch_calls = 3
    /\ tasks[1].sleeps = <<4, 4>>
    /\ tasks[1].outcome.type = "HTTPStatusError"
    /\ response.images[1].error = "HTTP Error: Not Found"

\* The stages a pipeline can have run, in the order of the code.
StageOrder == <<"decode", "detect", "annotate">>

\* C15: for each URL the stages decode, detect, annotate/encode run at most
\* once each and in that order, each only after the one before it succeeded
\* and only after the fetch returned; a failed stage ends the pipeline; for
\* a URL whose fetch exhausted its retries no stage runs.
C15_StageOrdering ==
    \A i \in TaskIds :
        LET t == tasks[i]
            n == Len(t.stages)
        IN  /\ n <= 3
            /\ t.stages = SubSeq(StageOrder, 1, n)
            /\ (n > 0 \/ t.pc \in StagePcs) => t.outcome = Returned
            /\ t.pc \in {"created", "fetching", "sleeping"} => n = 0
            /\ t.pc = "decode" => n = 0
            /\ t.pc = "detect" => n = 1
            /\ t.pc = "annotate" => n = 2
            /\ (t.pc = "done" /\ t.outcome \in FetchExceptions) => n = 0
            /\ (t.pc = "done" /\ t.outcome = Returned) =>
                  /\ n >= 1
                  /\ IsSuccess(t.result) => n = 3
                  /\ n < 3 => /\ IsError(t.result)
                              /\ t.raised = (IF n = 1 THEN DecodeException
                                                      ELSE DetectException)
                  /\ t.raised = DecodeException => n = 1
                  /\ t.raised = DetectException => n = 2
                  /\ t.raised = AnnotateException => n = 3

\* One URL's fetch exhausted its retries, the other's pipeline ended in the
\* Detector, and a response was made of both.
C15_Witness ==
    /\ Responded
    /\ Len(tasks) = 2
    /\ tasks[1].outcome \in FetchExceptions /\ tasks[1].fetch_calls = 3
    /\ tasks[1].stages = <<>>
    /\ tasks[2].stages = <<"decode", "detect">>
    /\ tasks[2].raised = DetectException

\* C16: with every fetch attempt and every Detector call returning or
\* raising and a fair scheduler, every valid batch request eventually
\* produces its response, and every pipeline of the batch eventually returns
\* its result: none retries forever, none waits on another for ever.
C16_Termination ==
    (phase = "received" /\ RequestValid(body)) ~>
        /\ Responded
        /\ Len(tasks) = Len(body.image_urls)
        /\ \A i \in TaskIds : tasks[i].pc = "done" /\ tasks[i].fetch_calls <= StopAttempts

\* A batch of two answered after the first URL needed all three attempts
\* and the second one's fetch never succeeded.
C16_Witness ==
    /\ Responded
    /\ Len(response.images) = 2
    /\ tasks[1].fetch_calls = 3 /\ IsSuccess(response.images[1])
    /\ tasks[2].fetch_calls = 3 /\ IsError(response.images[2])
    /\ done_order = <<2, 1>>

====
